---- MODULE Spec2Model ----
(***************************************************************************)
(* Model of the fixed-capacity Deque of src/src/deque.rs.                  *)
(*                                                                         *)
(* The program state is the Vec of Option slots (data), its capacity, and  *)
(* the two counters count and tail.  Every public method is one action.    *)
(* A Rust panic (remainder by zero, index out of range, usize underflow)   *)
(* is modelled by the flag fault; a panicked program takes no more steps.  *)
(*                                                                         *)
(* Observers, not program state: last (the call just made and what it      *)
(* returned), hist (the calls made since construction, kept by the         *)
(* scenario specifications), ref/refOut (a reference bounded sequence      *)
(* driven by the same calls).                                              *)
(*                                                                         *)
(* The Queue of src/src/queue.rs (queue, qcapacity, qcount, qtail) and the *)
(* Stack of src/src/stack.rs (stack, scapacity) are modelled the same way, *)
(* each with its own observers; a specification that is about one          *)
(* container leaves the others at capacity 0 and untouched.                *)
(***************************************************************************)
EXTENDS Integers, Sequences, FiniteSets, TLC

\* ---- bounds ----
MaxCap == 3
MaxVal == 1
MaxFifoCap == 5
MaxStackCap == 4

\* capacity used by the repository's deque tests and by the scenarios
TestCap == 5

Values == 0..MaxVal
TestValues == 0..(TestCap - 1)

\* Option<T>: None is the empty sequence, Some(v) the one-element sequence
None == <<>>
Some(v) == <<v>>

VARIABLES capacity, data, count, tail, fault, last, ref, refOut, hist,
          qcapacity, queue, qcount, qtail, qfault, qlast, qref, qrefOut,
          scapacity, stack, slast, sref, srefOut

deque == <<data, count, tail>>
dvars == <<capacity, data, count, tail, fault, last, ref, refOut, hist>>
qstate == <<queue, qcount, qtail>>
qvars == <<qcapacity, queue, qcount, qtail, qfault, qlast, qref, qrefOut>>
svars == <<scapacity, stack, slast, sref, srefOut>>
vars == <<capacity, data, count, tail, fault, last, ref, refOut, hist,
          qvars, svars>>

Rec(op, arg, res, ret, sz) ==
    [op |-> op, arg |-> arg, res |-> res, ret |-> ret, size |-> sz]

PushOps == {"push_front", "push_back"}
PopOps == {"pop_front", "pop_back"}
PeekOps == {"peek_front", "peek_back"}

\* ---- Deque::new ----
\* Vec::with_capacity(size) followed by capacity() pushes of None; the
\* capacity is taken to be exactly size, as the repository's test asserts.
new(size) ==
    /\ capacity = size
    /\ data = [i \in 0..(size - 1) |-> None]
    /\ count = 0
    /\ tail = 0

\* (self.tail + self.data.capacity() - self.count) % self.data.capacity()
HeadIndex == (tail + capacity - count) % capacity

\* the head expression panics on a remainder by zero and, in a build with
\* overflow checks, on a usize subtraction below zero
HeadFaults == capacity = 0 \/ count > tail + capacity

\* (self.tail + self.data.capacity() - 1) % self.data.capacity()
PrevTail == (tail + capacity - 1) % capacity

\* a panic: the call does not return and the deque is left as it was
Panic(op, arg) ==
    /\ fault' = TRUE
    /\ UNCHANGED deque
    /\ last' = Rec(op, arg, "panic", None, count)

size == count

\* push_front that stores the value before it reports a full deque
push_front_partial(val) ==
    IF count = capacity
    THEN /\ data' = IF capacity = 0 THEN data
                    ELSE [data EXCEPT ![HeadIndex] = Some(val)]
         /\ UNCHANGED <<count, tail, fault>>
         /\ last' = Rec("push_front", Some(val), "Err", None, count)
    ELSE IF HeadFaults
    THEN Panic("push_front", Some(val))
    ELSE /\ data' = [data EXCEPT ![HeadIndex] = Some(val)]
         /\ count' = count + 1
         /\ UNCHANGED <<tail, fault>>
         /\ last' = Rec("push_front", Some(val), "Ok", None, count + 1)

\* ---- Deque::push_front ----
push_front(val) ==
    IF count = capacity
    THEN /\ UNCHANGED <<deque, fault>>
         /\ last' = Rec("push_front", Some(val), "Err", None, count)
    ELSE IF HeadFaults
    THEN Panic("push_front", Some(val))
    ELSE LET head == HeadIndex IN
         /\ data' = [data EXCEPT ![head] = Some(val)]
         /\ count' = count + 1
         /\ UNCHANGED <<tail, fault>>
         /\ last' = Rec("push_front", Some(val), "Ok", None, count + 1)

\* push_back whose full test is count > capacity (off by one)
push_back_gt(val) ==
    IF count > capacity
    THEN /\ UNCHANGED <<deque, fault>>
         /\ last' = Rec("push_back", Some(val), "Err", None, count)
    ELSE IF capacity = 0
    THEN Panic("push_back", Some(val))
    ELSE /\ tail' = PrevTail
         /\ data' = [data EXCEPT ![PrevTail] = Some(val)]
         /\ count' = count + 1
         /\ UNCHANGED fault
         /\ last' = Rec("push_back", Some(val), "Ok", None, count + 1)

\* ---- Deque::push_back ----
push_back(val) ==
    IF count = capacity
    THEN /\ UNCHANGED <<deque, fault>>
         /\ last' = Rec("push_back", Some(val), "Err", None, count)
    ELSE IF capacity = 0
    THEN Panic("push_back", Some(val))
    ELSE /\ tail' = PrevTail
         /\ data' = [data EXCEPT ![PrevTail] = Some(val)]
         /\ count' = count + 1
         /\ UNCHANGED fault
         /\ last' = Rec("push_back", Some(val), "Ok", None, count + 1)

\* ---- Deque::pop_front ----
pop_front ==
    IF count = 0
    THEN /\ UNCHANGED <<deque, fault>>
         /\ last' = Rec("pop_front", None, "-", None, count)
    ELSE IF HeadFaults
    THEN Panic("pop_front", None)
    ELSE LET head == HeadIndex
             ret == data[head]
         IN /\ data' = [data EXCEPT ![head] = None]
            /\ count' = count - 1
            /\ UNCHANGED <<tail, fault>>
            /\ last' = Rec("pop_front", None, "-", ret, count - 1)

\* pop_back that steps tail back without wrapping (tail - 1 on a usize)
pop_back_nowrap ==
    IF count = 0
    THEN /\ UNCHANGED <<deque, fault>>
         /\ last' = Rec("pop_back", None, "-", None, count)
    ELSE IF tail \notin DOMAIN data \/ tail = 0
    THEN Panic("pop_back", None)
    ELSE /\ data' = [data EXCEPT ![tail] = None]
         /\ tail' = tail - 1
         /\ count' = count - 1
         /\ UNCHANGED fault
         /\ last' = Rec("pop_back", None, "-", data[tail], count - 1)

\* ---- Deque::pop_back ----
pop_back ==
    IF count = 0
    THEN /\ UNCHANGED <<deque, fault>>
         /\ last' = Rec("pop_back", None, "-", None, count)
    ELSE IF tail \notin DOMAIN data
    THEN Panic("pop_back", None)
    ELSE LET ret == data[tail]
         IN /\ data' = [data EXCEPT ![tail] = None]
            /\ tail' = PrevTail
            /\ count' = count - 1
            /\ UNCHANGED fault
            /\ last' = Rec("pop_back", None, "-", ret, count - 1)

\* peek_front that moves the value out of the slot (Option::take)
peek_front_take ==
    IF count = 0
    THEN /\ UNCHANGED <<deque, fault>>
         /\ last' = Rec("peek_front", None, "-", None, count)
    ELSE IF HeadFaults
    THEN Panic("peek_front", None)
    ELSE /\ data' = [data EXCEPT ![HeadIndex] = None]
         /\ UNCHANGED <<count, tail, fault>>
         /\ last' = Rec("peek_front", None, "-", data[HeadIndex], count)

\* peek_front without the count == 0 test (as Queue::peek is written)
peek_front_unguarded ==
    IF HeadFaults
    THEN Panic("peek_front", None)
    ELSE /\ UNCHANGED <<deque, fault>>
         /\ last' = Rec("peek_front", None, "-", data[HeadIndex], count)

\* ---- Deque::peek_front ----
peek_front ==
    IF count = 0
    THEN /\ UNCHANGED <<deque, fault>>
         /\ last' = Rec("peek_front", None, "-", None, count)
    ELSE IF HeadFaults
    THEN Panic("peek_front", None)
    ELSE LET head == HeadIndex
         IN /\ UNCHANGED <<deque, fault>>
            /\ last' = Rec("peek_front", None, "-", data[head], count)

\* ---- Deque::peek_back ----
peek_back ==
    IF count = 0
    THEN /\ UNCHANGED <<deque, fault>>
         /\ last' = Rec("peek_back", None, "-", None, count)
    ELSE IF tail \notin DOMAIN data
    THEN Panic("peek_back", None)
    ELSE /\ UNCHANGED <<deque, fault>>
         /\ last' = Rec("peek_back", None, "-", data[tail], count)

\* ---- reference: a sequence bounded by capacity, front first ----
RefRec(res, ret, sz) == [res |-> res, ret |-> ret, size |-> sz]

RefPushFront(val) ==
    IF Len(ref) < capacity
    THEN /\ ref' = <<val>> \o ref
         /\ refOut' = RefRec("Ok", None, Len(ref) + 1)
    ELSE /\ ref' = ref
         /\ refOut' = RefRec("Err", None, Len(ref))

RefPushBack(val) ==
    IF Len(ref) < capacity
    THEN /\ ref' = Append(ref, val)
         /\ refOut' = RefRec("Ok", None, Len(ref) + 1)
    ELSE /\ ref' = ref
         /\ refOut' = RefRec("Err", None, Len(ref))

RefPopFront ==
    IF ref = <<>>
    THEN /\ ref' = ref
         /\ refOut' = RefRec("-", None, 0)
    ELSE /\ ref' = Tail(ref)
         /\ refOut' = RefRec("-", Some(Head(ref)), Len(ref) - 1)

RefPopBack ==
    IF ref = <<>>
    THEN /\ ref' = ref
         /\ refOut' = RefRec("-", None, 0)
    ELSE /\ ref' = SubSeq(ref, 1, Len(ref) - 1)
         /\ refOut' = RefRec("-", Some(ref[Len(ref)]), Len(ref) - 1)

RefPeekFront ==
    /\ ref' = ref
    /\ refOut' = RefRec("-", IF ref = <<>> THEN None ELSE Some(Head(ref)), Len(ref))

RefPeekBack ==
    /\ ref' = ref
    /\ refOut' = RefRec("-", IF ref = <<>> THEN None ELSE Some(ref[Len(ref)]), Len(ref))

(***************************************************************************)
(* Queue (src/src/queue.rs)                                                *)
(***************************************************************************)

\* ---- Queue::new ----
qnew(n) ==
    /\ qcapacity = n
    /\ queue = [i \in 0..(n - 1) |-> None]
    /\ qcount = 0
    /\ qtail = 0

\* (self.tail + self.queue.capacity() - self.count) % self.queue.capacity()
QHeadIndex == (qtail + qcapacity - qcount) % qcapacity

\* the head expression panics on a remainder by zero and on a usize
\* subtraction below zero
QHeadFaults == qcapacity = 0 \/ qcount > qtail + qcapacity

QPanic(op, arg) ==
    /\ qfault' = TRUE
    /\ UNCHANGED qstate
    /\ qlast' = Rec(op, arg, "panic", None, qcount)

\* enqueue whose full test is count > capacity (off by one)
enqueue_gt(val) ==
    IF qcount > qcapacity
    THEN /\ UNCHANGED <<qstate, qfault>>
         /\ qlast' = Rec("enqueue", Some(val), "Err", None, qcount)
    ELSE IF qtail \notin DOMAIN queue
    THEN QPanic("enqueue", Some(val))
    ELSE /\ queue' = [queue EXCEPT ![qtail] = Some(val)]
         /\ qcount' = qcount + 1
         /\ qtail' = (qtail + 1) % qcapacity
         /\ UNCHANGED qfault
         /\ qlast' = Rec("enqueue", Some(val), "Ok", None, qcount + 1)

\* enqueue that leaves out self.tail %= capacity
enqueue_nowrap(val) ==
    IF qcount = qcapacity
    THEN /\ UNCHANGED <<qstate, qfault>>
         /\ qlast' = Rec("enqueue", Some(val), "Err", None, qcount)
    ELSE IF qtail \notin DOMAIN queue
    THEN QPanic("enqueue", Some(val))
    ELSE /\ queue' = [queue EXCEPT ![qtail] = Some(val)]
         /\ qcount' = qcount + 1
         /\ qtail' = qtail + 1
         /\ UNCHANGED qfault
         /\ qlast' = Rec("enqueue", Some(val), "Ok", None, qcount + 1)

\* ---- Queue::enqueue ----
enqueue(val) ==
    IF qcount = qcapacity
    THEN /\ UNCHANGED <<qstate, qfault>>
         /\ qlast' = Rec("enqueue", Some(val), "Err", None, qcount)
    ELSE IF qtail \notin DOMAIN queue
    THEN QPanic("enqueue", Some(val))
    ELSE /\ queue' = [queue EXCEPT ![qtail] = Some(val)]
         /\ qcount' = qcount + 1
         /\ qtail' = (qtail + 1) % qcapacity
         /\ UNCHANGED qfault
         /\ qlast' = Rec("enqueue", Some(val), "Ok", None, qcount + 1)

\* ---- Queue::dequeue ----
dequeue ==
    IF qcount = 0
    THEN /\ UNCHANGED <<qstate, qfault>>
         /\ qlast' = Rec("dequeue", None, "-", None, qcount)
    ELSE IF QHeadFaults
    THEN QPanic("dequeue", None)
    ELSE LET head == QHeadIndex
             ret == queue[head]
         IN /\ queue' = [queue EXCEPT ![head] = None]
            /\ qcount' = qcount - 1
            /\ UNCHANGED <<qtail, qfault>>
            /\ qlast' = Rec("dequeue", None, "-", ret, qcount - 1)

\* peek that reads the slot at tail instead of the slot at head
peek_tail ==
    IF QHeadFaults
    THEN QPanic("peek", None)
    ELSE /\ UNCHANGED <<qstate, qfault>>
         /\ qlast' = Rec("peek", None, "-", queue[qtail], qcount)

\* ---- Queue::peek ----
peek ==
    IF QHeadFaults
    THEN QPanic("peek", None)
    ELSE LET head == QHeadIndex
         IN /\ UNCHANGED <<qstate, qfault>>
            /\ qlast' = Rec("peek", None, "-", queue[head], qcount)

\* ---- reference: a first-in first-out sequence bounded by capacity ----
QRefEnqueue(val) ==
    IF Len(qref) < qcapacity
    THEN /\ qref' = Append(qref, val)
         /\ qrefOut' = RefRec("Ok", None, Len(qref) + 1)
    ELSE /\ qref' = qref
         /\ qrefOut' = RefRec("Err", None, Len(qref))

QRefDequeue ==
    IF qref = <<>>
    THEN /\ qref' = qref
         /\ qrefOut' = RefRec("-", None, 0)
    ELSE /\ qref' = Tail(qref)
         /\ qrefOut' = RefRec("-", Some(Head(qref)), Len(qref) - 1)

QRefPeek ==
    /\ qref' = qref
    /\ qrefOut' = RefRec("-", IF qref = <<>> THEN None ELSE Some(Head(qref)), Len(qref))

(***************************************************************************)
(* Stack (src/src/stack.rs)                                                *)
(***************************************************************************)

\* ---- Stack::new ----
\* Vec::with_capacity(size); the capacity is taken to be exactly size, as
\* the repository's test asserts.
snew(n) ==
    /\ scapacity = n
    /\ stack = <<>>

\* ---- Stack::size ----
ssize == Len(stack)

\* push whose room test is len <= capacity (off by one)
push_le(val) ==
    IF Len(stack) <= scapacity
    THEN /\ stack' = Append(stack, val)
         /\ slast' = Rec("push", Some(val), "Ok", None, Len(stack) + 1)
    ELSE /\ stack' = stack
         /\ slast' = Rec("push", Some(val), "Err", None, Len(stack))

\* ---- Stack::push ----
push(val) ==
    IF Len(stack) < scapacity
    THEN /\ stack' = Append(stack, val)
         /\ slast' = Rec("push", Some(val), "Ok", None, Len(stack) + 1)
    ELSE /\ stack' = stack
         /\ slast' = Rec("push", Some(val), "Err", None, Len(stack))

\* ---- Stack::pop ----  (Vec::pop)
pop ==
    IF stack = <<>>
    THEN /\ stack' = stack
         /\ slast' = Rec("pop", None, "-", None, 0)
    ELSE /\ stack' = SubSeq(stack, 1, Len(stack) - 1)
         /\ slast' = Rec("pop", None, "-", Some(stack[Len(stack)]), Len(stack) - 1)

\* ---- reference: last-in first-out, newest first, bounded by capacity ----
SRefPush(val) ==
    IF Len(sref) < scapacity
    THEN /\ sref' = <<val>> \o sref
         /\ srefOut' = RefRec("Ok", None, Len(sref) + 1)
    ELSE /\ sref' = sref
         /\ srefOut' = RefRec("Err", None, Len(sref))

SRefPop ==
    IF sref = <<>>
    THEN /\ sref' = sref
         /\ srefOut' = RefRec("-", None, 0)
    ELSE /\ sref' = Tail(sref)
         /\ srefOut' = RefRec("-", Some(Head(sref)), Len(sref) - 1)

\* ---- construction ----
DFresh(caps) ==
    /\ \E n \in caps : new(n)
    /\ fault = FALSE
    /\ last = Rec("new", None, "-", None, 0)
    /\ ref = <<>>
    /\ refOut = RefRec("-", None, 0)
    /\ hist = <<>>

QFresh(caps) ==
    /\ \E n \in caps : qnew(n)
    /\ qfault = FALSE
    /\ qlast = Rec("new", None, "-", None, 0)
    /\ qref = <<>>
    /\ qrefOut = RefRec("-", None, 0)

SFresh(caps) ==
    /\ \E n \in caps : snew(n)
    /\ slast = Rec("new", None, "-", None, 0)
    /\ sref = <<>>
    /\ srefOut = RefRec("-", None, 0)

\* a fresh deque; no queue and no stack in use
Fresh(caps) == DFresh(caps) /\ QFresh({0}) /\ SFresh({0})

\* ---- any interleaving of the six methods ----
Init == Fresh(0..MaxCap)

PushFront ==
    /\ ~fault
    /\ \E v \in Values : push_front(v) /\ RefPushFront(v)
    /\ UNCHANGED <<capacity, hist, qvars, svars>>

PushBack ==
    /\ ~fault
    /\ \E v \in Values : push_back(v) /\ RefPushBack(v)
    /\ UNCHANGED <<capacity, hist, qvars, svars>>

PopFront ==
    /\ ~fault
    /\ pop_front /\ RefPopFront
    /\ UNCHANGED <<capacity, hist, qvars, svars>>

PopBack ==
    /\ ~fault
    /\ pop_back /\ RefPopBack
    /\ UNCHANGED <<capacity, hist, qvars, svars>>

PeekFront ==
    /\ ~fault
    /\ peek_front /\ RefPeekFront
    /\ UNCHANGED <<capacity, hist, qvars, svars>>

PeekBack ==
    /\ ~fault
    /\ peek_back /\ RefPeekBack
    /\ UNCHANGED <<capacity, hist, qvars, svars>>

Next == PushFront \/ PushBack \/ PopFront \/ PopBack \/ PeekFront \/ PeekBack

Spec == Init /\ [][Next]_vars

(***************************************************************************)
(* Scenarios on a freshly constructed deque: a run of pushes followed by a *)
(* run of pops, each call appended to hist.                                *)
(***************************************************************************)
Pushed == {i \in 1..Len(hist) : hist[i].op \in PushOps}
Popped == {i \in 1..Len(hist) : hist[i].op \in PopOps}
PushedOk == {i \in Pushed : hist[i].res = "Ok"}
PushedValues == {hist[i].arg[1] : i \in Pushed}

\* pushes are made while no pop has been made, at most attempts of them
Filling(attempts) == ~fault /\ Popped = {} /\ Len(hist) < attempts
\* no more pops are made than pushes succeeded
Draining == ~fault /\ Cardinality(Popped) < Cardinality(PushedOk)

FillBack ==
    /\ Filling(capacity + 1)
    /\ \E v \in Values : push_back(v) /\ RefPushBack(v)
    /\ hist' = Append(hist, last')
    /\ UNCHANGED <<capacity, qvars, svars>>

FillFront ==
    /\ Filling(capacity + 1)
    /\ \E v \in Values : push_front(v) /\ RefPushFront(v)
    /\ hist' = Append(hist, last')
    /\ UNCHANGED <<capacity, qvars, svars>>

FillBackDistinct ==
    /\ Filling(capacity)
    /\ \E v \in TestValues \ PushedValues : push_back(v) /\ RefPushBack(v)
    /\ hist' = Append(hist, last')
    /\ UNCHANGED <<capacity, qvars, svars>>

FillFrontDistinct ==
    /\ Filling(capacity)
    /\ \E v \in TestValues \ PushedValues : push_front(v) /\ RefPushFront(v)
    /\ hist' = Append(hist, last')
    /\ UNCHANGED <<capacity, qvars, svars>>

DrainFront ==
    /\ Draining
    /\ pop_front /\ RefPopFront
    /\ hist' = Append(hist, last')
    /\ UNCHANGED <<capacity, qvars, svars>>

DrainBack ==
    /\ Draining
    /\ pop_back /\ RefPopBack
    /\ hist' = Append(hist, last')
    /\ UNCHANGED <<capacity, qvars, svars>>

\* push_back only, then pop_front only
InitFifo == Fresh(0..MaxFifoCap)
NextFifo == FillBack \/ DrainFront
SpecFifo == InitFifo /\ [][NextFifo]_vars

\* push_front only, then pop_front only
NextLifo == FillFront \/ DrainFront
SpecLifo == InitFifo /\ [][NextLifo]_vars

\* capacity 5: distinct values pushed at either end, then popped at either end
InitRoundTrip == Fresh({TestCap})
NextRoundTrip == FillFrontDistinct \/ FillBackDistinct \/ DrainFront \/ DrainBack
SpecRoundTrip == InitRoundTrip /\ [][NextRoundTrip]_vars

(***************************************************************************)
(* Claims checked under the scenario specifications                        *)
(***************************************************************************)
OnlyOps(ops) == \A i \in 1..Len(hist) : hist[i].op \in ops
AllPushesOk == Pushed = PushedOk
NumPushed == Cardinality(Pushed)

\* C1: after k <= capacity successful push_back calls with values v1..vk on
\* a fresh deque, the pop_front calls that follow return v1, v2, ..., vk in
\* that order.
C1_FifoOrder ==
    (OnlyOps({"push_back", "pop_front"}) /\ AllPushesOk) =>
        \A j \in Popped : hist[j].ret = hist[j - NumPushed].arg

\* C2: after k <= capacity successful push_front calls with values v1..vk on
\* a fresh deque, the pop_front calls that follow return vk, ..., v2, v1.
C2_FrontLifoOrder ==
    (OnlyOps({"push_front", "pop_front"}) /\ AllPushesOk) =>
        \A j \in Popped : hist[j].ret = hist[2 * NumPushed + 1 - j].arg

\* C3: on an empty deque of capacity 5, after push_back(1), push_back(2),
\* push_front(0), the next pop_front returns 0 and the pop_back that follows
\* returns 2.
MixedEndPrefix ==
    /\ capacity = TestCap
    /\ Len(hist) >= 4
    /\ hist[1].op = "push_back" /\ hist[1].arg = Some(1)
    /\ hist[2].op = "push_back" /\ hist[2].arg = Some(2)
    /\ hist[3].op = "push_front" /\ hist[3].arg = Some(0)
    /\ hist[4].op = "pop_front"

C3_MixedEnd ==
    MixedEndPrefix =>
        /\ hist[4].ret = Some(0)
        /\ (Len(hist) >= 5 /\ hist[5].op = "pop_back") => hist[5].ret = Some(2)

\* C5: a capacity-5 deque filled with 5 distinct values by any mix of
\* push_front and push_back and then drained by 5 pops of any mix ends with
\* size() = 0, no pop returned empty, and the pops returned each pushed
\* value exactly once.
C5_RoundTrip ==
    (/\ capacity = TestCap
     /\ Cardinality(PushedOk) = TestCap
     /\ Cardinality(PushedValues) = TestCap
     /\ Cardinality(Popped) = TestCap) =>
        /\ size = 0
        /\ \A j \in Popped : hist[j].ret # None
        /\ {hist[j].ret : j \in Popped} = {hist[i].arg : i \in Pushed}

\* C6: on a fresh deque of capacity c the first c push_back calls return Ok,
\* the (c+1)-th returns Err, and count is exactly c after the failed call.
C6_CapacityBound ==
    OnlyOps({"push_back"}) =>
        \A i \in 1..Len(hist) :
            IF i <= capacity
            THEN hist[i].res = "Ok" /\ hist[i].size = i
            ELSE hist[i].res = "Err" /\ hist[i].size = capacity /\ size = capacity

C6_Witness ==
    /\ capacity >= 2
    /\ OnlyOps({"push_back"})
    /\ Len(hist) = capacity + 1
    /\ last.op = "push_back"
    /\ last.res = "Err"


(***************************************************************************)
(* Claims checked under Spec                                               *)
(***************************************************************************)

\* C4: every result and every size() of the deque equals that of the
\* reference sequence (prepend / append / remove-first / remove-last,
\* bounded by capacity) driven by the same calls.
C4_RefinesReference ==
    /\ last.res = refOut.res
    /\ last.ret = refOut.ret
    /\ last.size = refOut.size
    /\ size = Len(ref)

\* C7: a push on a full deque returns Err and leaves every slot, count and
\* tail unchanged; a push on a deque that is not full returns Ok and
\* increases count by exactly 1.
C7_PushOnFullIsNoop ==
    [][last'.op \in PushOps =>
         IF count = capacity
         THEN last'.res = "Err" /\ data' = data /\ count' = count /\ tail' = tail
         ELSE last'.res = "Ok" /\ count' = count + 1]_vars

C7_Witness ==
    /\ capacity >= 2
    /\ count = capacity
    /\ last.op \in PushOps
    /\ last.res = "Err"

C9_ZeroCapacity ==
    capacity = 0 =>
        /\ ~fault
        /\ size = 0
        /\ last.op \in PushOps => last.res = "Err"
        /\ last.op \in (PopOps \cup PeekOps) => last.ret = None

C9_Witness ==
    /\ capacity = 0
    /\ last.op = "peek_front"
    /\ last.ret = None
    /\ ~fault

\* C10: the value peek_front (peek_back) returns is the value an immediately
\* following pop_front (pop_back) returns, and both are empty exactly when
\* the deque is empty.
C10_PeekAgreesWithPop ==
    [][/\ (last.op = "peek_front" /\ last'.op = "pop_front") =>
             /\ last'.ret = last.ret
             /\ (last.ret = None) <=> (count = 0)
       /\ (last.op = "peek_back" /\ last'.op = "pop_back") =>
             /\ last'.ret = last.ret
             /\ (last.ret = None) <=> (count = 0)]_vars

\* C11: a peek leaves size(), tail and every slot unchanged, and a second
\* peek made right after it, with no mutation in between, returns the same
\* value.
C11_PeekIsPure ==
    /\ [][last'.op \in PeekOps =>
             /\ data' = data /\ count' = count /\ tail' = tail
             /\ last'.size = size]_vars
    /\ [](last.op = "peek_front" => ENABLED (peek_front /\ last' = last))
    /\ [](last.op = "peek_back" => ENABLED (peek_back /\ last' = last))

C11_Witness ==
    /\ last.op = "peek_front"
    /\ last.ret # None
    /\ size >= 2

(***************************************************************************)
(* Queue: any interleaving of enqueue, dequeue and peek                    *)
(***************************************************************************)
InitQueue == DFresh({0}) /\ QFresh(0..MaxCap) /\ SFresh({0})

Enqueue ==
    /\ ~qfault
    /\ \E v \in Values : enqueue(v) /\ QRefEnqueue(v)
    /\ UNCHANGED <<qcapacity, dvars, svars>>

Dequeue ==
    /\ ~qfault
    /\ dequeue /\ QRefDequeue
    /\ UNCHANGED <<qcapacity, dvars, svars>>

Peek ==
    /\ ~qfault
    /\ peek /\ QRefPeek
    /\ UNCHANGED <<qcapacity, dvars, svars>>

NextQueue == Enqueue \/ Dequeue \/ Peek
SpecQueue == InitQueue /\ [][NextQueue]_vars

\* C12: for a queue of capacity >= 1 and any interleaving of enqueue and
\* dequeue, the successful dequeues return the successfully enqueued values
\* in enqueue order (every result is that of a first-in first-out
\* sequence), and count is 0 once every enqueued value has been dequeued.
C12_QueueFifo ==
    qcapacity >= 1 =>
        /\ ~qfault
        /\ qlast.res = qrefOut.res
        /\ qlast.ret = qrefOut.ret
        /\ qcount = Len(qref)
        /\ qref = <<>> => qcount = 0

\* the stored run wraps past the last index and a dequeue has returned a value
C12_Witness ==
    /\ qcapacity >= 2
    /\ qcount >= 1
    /\ qtail < QHeadIndex
    /\ qlast.op = "dequeue"
    /\ qlast.ret # None

\* C13: enqueue returns Ok exactly when count < capacity and Err exactly
\* when count == capacity; a failed enqueue leaves slots, count and tail
\* unchanged; a successful one writes a vacant slot only; count never
\* exceeds capacity.
C13_QueueCapacityBound ==
    [][/\ qcount' <= qcapacity'
       /\ qlast'.op = "enqueue" =>
            IF qcount = qcapacity
            THEN /\ qlast'.res = "Err"
                 /\ queue' = queue /\ qcount' = qcount /\ qtail' = qtail
            ELSE /\ qcount < qcapacity
                 /\ qlast'.res = "Ok"
                 /\ qcount' = qcount + 1
                 /\ qtail \in DOMAIN queue
                 /\ queue[qtail] = None
                 /\ \A i \in DOMAIN queue \ {qtail} : queue'[i] = queue[i]]_vars

C13_Witness ==
    /\ qcapacity >= 2
    /\ qcount = qcapacity
    /\ qlast.op = "enqueue"
    /\ qlast.res = "Err"

\* C14: with capacity >= 1, peek returns the slot at index
\* (tail + capacity - count) mod capacity: the oldest value not yet dequeued
\* when count > 0, None when count == 0; a dequeue made right after the peek
\* returns the same.
C14_QueuePeekIsFront ==
    /\ []((qcapacity >= 1 /\ qlast.op = "peek") =>
            /\ ~qfault
            /\ qlast.ret = queue[QHeadIndex]
            /\ qcount = 0 => qlast.ret = None
            /\ qcount > 0 => (qref # <<>> /\ qlast.ret = Some(Head(qref))))
    /\ [][(qcapacity >= 1 /\ qlast.op = "peek" /\ qlast'.op = "dequeue") =>
            qlast'.ret = qlast.ret]_vars

C14_Witness ==
    /\ qlast.op = "peek"
    /\ qlast.ret # None
    /\ qcount >= 2

(***************************************************************************)
(* Stack: any interleaving of push and pop                                 *)
(***************************************************************************)
InitStack == DFresh({0}) /\ QFresh({0}) /\ SFresh(0..MaxStackCap)

Push ==
    /\ \E v \in Values : push(v) /\ SRefPush(v)
    /\ UNCHANGED <<scapacity, dvars, qvars>>

Pop ==
    /\ pop /\ SRefPop
    /\ UNCHANGED <<scapacity, dvars, qvars>>

NextStack == Push \/ Pop
SpecStack == InitStack /\ [][NextStack]_vars

\* C15: push returns Ok exactly when size() < capacity and Err otherwise,
\* leaving the contents unchanged; pop returns the most recently pushed
\* value not yet popped, or None when empty; size() never exceeds capacity.
C15_StackBoundedLifo ==
    /\ [](/\ ssize <= scapacity
          /\ slast.res = srefOut.res
          /\ slast.ret = srefOut.ret
          /\ slast.size = ssize
          /\ ssize = Len(sref))
    /\ [][slast'.op = "push" =>
            /\ (slast'.res = "Ok") <=> (ssize < scapacity)
            /\ (slast'.res = "Err") <=> ~(ssize < scapacity)
            /\ slast'.res = "Err" => stack' = stack]_vars

C15_Witness ==
    /\ scapacity >= 2
    /\ ssize = scapacity
    /\ slast.op = "push"
    /\ slast.res = "Err"

(***************************************************************************)
(* Deque invariants, checked under Spec                                    *)
(***************************************************************************)
Occupied == {i \in DOMAIN data : data[i] # None}
\* the n indices from start on, wrapping modulo capacity
RunFrom(start, n) == {(start + k) % capacity : k \in 0..(n - 1)}

\* C16: exactly count slots are occupied, and they are the contiguous
\* circular run of length count that starts at
\* (tail + capacity - count) mod capacity and ends at tail.  The run is
\* accepted in either reading: count slots from the head index on, or count
\* slots up to and including tail.
C16_OccupancyInvariant ==
    /\ Cardinality(Occupied) = count
    /\ capacity > 0 =>
          \/ Occupied = RunFrom(HeadIndex, count)
          \/ Occupied = RunFrom((tail + 1 + capacity - count) % capacity, count)

\* C17: a successful push_front writes slot
\* (tail + capacity - count) mod capacity and a successful push_back writes
\* slot (tail + capacity - 1) mod capacity, and that slot is vacant before
\* the write.
C17_PushFillsVacantSlot ==
    [][/\ (last'.op = "push_front" /\ last'.res = "Ok") =>
             data[HeadIndex] = None
       /\ (last'.op = "push_back" /\ last'.res = "Ok") =>
             data[PrevTail] = None]_vars

\* C18: 0 <= count <= capacity and, when capacity > 0, 0 <= tail < capacity;
\* every slot index the methods compute lies in [0, capacity) and no method
\* panics.
C18_IndexBounds ==
    /\ ~fault
    /\ DOMAIN data = 0..(capacity - 1)
    /\ count \in 0..capacity
    /\ capacity > 0 =>
          /\ tail \in 0..(capacity - 1)
          /\ HeadIndex \in DOMAIN data
          /\ PrevTail \in DOMAIN data

\* tail has wrapped from 0 to capacity - 1
C18_Witness ==
    /\ capacity >= 2
    /\ tail = capacity - 1
    /\ count = capacity
    /\ last.op = "push_back"
    /\ last.res = "Ok"

(***************************************************************************)
(* A deque used through push_back, pop_front and peek_front, next to a     *)
(* queue of the same capacity given the same requests                      *)
(***************************************************************************)
InitPair ==
    \E n \in 1..MaxCap : DFresh({n}) /\ QFresh({n}) /\ SFresh({0})

Insert ==
    /\ ~fault /\ ~qfault
    /\ \E v \in Values :
          /\ push_back(v) /\ RefPushBack(v)
          /\ enqueue(v) /\ QRefEnqueue(v)
    /\ UNCHANGED <<capacity, hist, qcapacity, svars>>

Remove ==
    /\ ~fault /\ ~qfault
    /\ pop_front /\ RefPopFront
    /\ dequeue /\ QRefDequeue
    /\ UNCHANGED <<capacity, hist, qcapacity, svars>>

Front ==
    /\ ~fault /\ ~qfault
    /\ peek_front /\ RefPeekFront
    /\ peek /\ QRefPeek
    /\ UNCHANGED <<capacity, hist, qcapacity, svars>>

NextPair == Insert \/ Remove \/ Front
SpecPair == InitPair /\ [][NextPair]_vars

\* C19: at every step the deque and the queue produce the same success/full
\* outcome and the same returned value.
C19_DequeIsQueue ==
    /\ last.res = qlast.res
    /\ last.ret = qlast.ret

(***************************************************************************)
(* push_back only, then pop_back only                                      *)
(***************************************************************************)
NextBackLifo == FillBack \/ DrainBack
SpecBackLifo == InitFifo /\ [][NextBackLifo]_vars

\* C20: after k >= 2 successful push_back calls with values v1..vk on a
\* fresh deque of capacity >= 2, the pop_back calls that follow return
\* vk, ..., v2, v1; a pop_back made right after a successful push_back(v)
\* returns v and restores count and tail to their values before the push.
C20_BackLifoOrder ==
    /\ []((/\ capacity >= 2
           /\ OnlyOps({"push_back", "pop_back"})
           /\ AllPushesOk
           /\ NumPushed >= 2) =>
             \A j \in Popped : hist[j].ret = hist[2 * NumPushed + 1 - j].arg)
    /\ [][(/\ capacity >= 2
           /\ last.op = "push_back" /\ last.res = "Ok"
           /\ last'.op = "pop_back") =>
             /\ last'.ret = last.arg
             /\ count' = count - 1
             /\ tail' = (tail + 1) % capacity]_vars

(***************************************************************************)
(* Queue: absence of panics, checked under SpecQueue                       *)
(***************************************************************************)

\* C21: for every capacity, 0 included, every enqueue, dequeue and peek
\* completes with a normal result (Ok, Err, Some or None) and never panics;
\* in particular peek on an empty queue, also one of capacity 0, returns
\* None.
C21_QueueNeverFaults ==
    /\ ~qfault
    /\ qlast.res # "panic"
    /\ qlast.op = "enqueue" => qlast.res \in {"Ok", "Err"}
    /\ (qlast.op = "peek" /\ qcount = 0) => qlast.ret = None

====
